---------------------------- MODULE Spec2Model ----------------------------
(***************************************************************************)
(* A model of the TradingView quote socket (src/socket.go).                *)
(*                                                                         *)
(* Byte buffers are sequences of one-character strings where the framing   *)
(* code looks at them ("~", "m", digits, sign).  The JSON text inside a    *)
(* frame is abbreviated: one element of the sequence stands for one        *)
(* lexical unit of the document ("{", a name, a number, ...), and counts   *)
(* as one byte for the framing arithmetic.  Go indexes from 0, TLA+ from   *)
(* 1: operators that take an index take the Go index.                      *)
(***************************************************************************)
EXTENDS Integers, Sequences, FiniteSets, TLC

(***************************************************************************)
(* Bounds of the model                                                     *)
(***************************************************************************)
\* number of messages the loop may read from the transport
MaxReceives == 2
\* number of AddSymbol / RemoveSymbol / Close calls the caller makes
MaxCalls == 1
\* spare capacity (cap - len) a received byte slice may have
MaxSlack == 1
\* number of frames of a buffer given to the splitting step alone
MaxFrames == 3

(***************************************************************************)
(* Go values                                                               *)
(***************************************************************************)
\* a nil pointer / nil interface / absent JSON member
Nil == "nil"

\* websocket.TextMessage and websocket.BinaryMessage
TextMessage == "text"
BinaryMessage == "binary"

\* the error contexts handed to OnErrorCallback (identifiers used by socket.go)
InitErrorContext == "InitErrorContext"
ReadFirstMessageErrorContext == "ReadFirstMessageErrorContext"
DecodeFirstMessageErrorContext == "DecodeFirstMessageErrorContext"
FirstMessageWithoutSessionIdErrorContext == "FirstMessageWithoutSessionIdErrorContext"
ConnectionSetupMessagesErrorContext == "ConnectionSetupMessagesErrorContext"
SendMessageErrorContext == "SendMessageErrorContext"
ReadMessageErrorContext == "ReadMessageErrorContext"
SendKeepAliveMessageErrorContext == "SendKeepAliveMessageErrorContext"
GetPayloadLengthErrorContext == "GetPayloadLengthErrorContext"
DecodeMessageErrorContext == "DecodeMessageErrorContext"
DecodedMessageHasErrorPropertyErrorContext == "DecodedMessageHasErrorPropertyErrorContext"
DecodedMessageDoesNotIncludePayloadErrorContext == "DecodedMessageDoesNotIncludePayloadErrorContext"
PayloadCantBeParsedErrorContext == "PayloadCantBeParsedErrorContext"
FinalPayloadCantBeParsedErrorContext == "FinalPayloadCantBeParsedErrorContext"
FinalPayloadHasMissingPropertiesErrorContext == "FinalPayloadHasMissingPropertiesErrorContext"

(***************************************************************************)
(* strconv                                                                 *)
(***************************************************************************)
Digits == <<"0", "1", "2", "3", "4", "5", "6", "7", "8", "9">>

IsDigit(c) == \E d \in 1..10 : Digits[d] = c

DigitValue(c) == (CHOOSE d \in 1..10 : Digits[d] = c) - 1

RECURSIVE DigitsValue(_)
DigitsValue(s) ==
    IF s = << >> THEN 0
    ELSE 10 * DigitsValue(SubSeq(s, 1, Len(s) - 1)) + DigitValue(s[Len(s)])

\* strconv.Atoi: an optional sign followed by at least one decimal digit
Atoi(s) ==
    LET signed == s # << >> /\ s[1] \in {"+", "-"}
        body   == IF signed THEN Tail(s) ELSE s
    IN  IF body = << >> \/ \E i \in 1..Len(body) : ~IsDigit(body[i])
        THEN [err |-> TRUE, n |-> 0]
        ELSE [err |-> FALSE,
              n   |-> IF signed /\ s[1] = "-" THEN 0 - DigitsValue(body)
                      ELSE DigitsValue(body)]

RECURSIVE NatDigits(_)
NatDigits(n) ==
    IF n < 10 THEN <<Digits[n + 1]>>
    ELSE NatDigits(n \div 10) \o <<Digits[(n % 10) + 1]>>

\* strconv.Itoa
Itoa(n) == IF n < 0 THEN <<"-">> \o NatDigits(0 - n) ELSE NatDigits(n)

(***************************************************************************)
(* Frame header helpers                                                    *)
(***************************************************************************)
\* the loop of getPayloadStartingIndex: the index after the first "~" at or
\* after index 3, or -1 for the index-out-of-range panic of msg[index]
RECURSIVE ScanStart(_, _)
ScanStart(msg, index) ==
    IF index >= Len(msg) THEN -1
    ELSE IF msg[index + 1] = "~" THEN index + 1
    ELSE ScanStart(msg, index + 1)

getPayloadStartingIndex(msg) ==
    LET index == ScanStart(msg, 3)
    IN  IF index = -1 THEN [panic |-> TRUE, index |-> 0]
        ELSE [panic |-> FALSE, index |-> index + 2]

\* isKeepAliveMsg: msg[getPayloadStartingIndex(msg)] panics past the end
isKeepAliveMsgAlt(msg) ==
    LET start == getPayloadStartingIndex(msg)
    IN  IF start.panic \/ start.index + 1 >= Len(msg)
        THEN [panic |-> TRUE, keepAlive |-> FALSE]
        ELSE [panic |-> FALSE, keepAlive |-> msg[start.index + 2] = "~"]

isKeepAliveMsg(msg) ==
    LET start == getPayloadStartingIndex(msg)
    IN  IF start.panic \/ start.index >= Len(msg)
        THEN [panic |-> TRUE, keepAlive |-> FALSE]
        ELSE [panic |-> FALSE, keepAlive |-> msg[start.index + 1] = "~"]

\* getPayloadLength: the characters from index 3 up to the next "~"
RECURSIVE ScanLength(_, _, _)
ScanLength(msg, index, lengthAsString) ==
    IF index >= Len(msg) THEN [panic |-> TRUE, lengthAsString |-> lengthAsString]
    ELSE IF msg[index + 1] = "~"
         THEN [panic |-> FALSE, lengthAsString |-> lengthAsString]
         ELSE ScanLength(msg, index + 1, lengthAsString \o <<msg[index + 1]>>)

getPayloadLength(msg) ==
    LET scan == ScanLength(msg, 3, << >>)
        conv == Atoi(scan.lengthAsString)
    IN  IF scan.panic THEN [panic |-> TRUE, err |-> FALSE, length |-> 0]
        ELSE [panic |-> FALSE, err |-> conv.err, length |-> conv.n]

(***************************************************************************)
(* encoding/json and mapstructure on the abbreviated documents             *)
(*                                                                         *)
(*   document  ::= "null" | "{" [name [p]] "}"                             *)
(*   p         ::= "null" | scalar | "[" element* "]"                      *)
(*   element   ::= scalar | "(" [n [s [v]]] ")"                            *)
(*   v         ::= "null" | lp volume bid ask      (each "." when absent)  *)
(*                                                                         *)
(* "(" ... ")" is the JSON object {"n":..,"s":..,"v":{..}} of a quote.     *)
(***************************************************************************)
Brackets == {"{", "}", "[", "]", "(", ")"}

IsScalar(tok) == tok \notin Brackets

\* index of the first ")" of toks, 0 if there is none
RECURSIVE CloseAt(_, _)
CloseAt(toks, i) ==
    IF i > Len(toks) THEN 0
    ELSE IF toks[i] = ")" THEN i
    ELSE CloseAt(toks, i + 1)

\* the elements of a JSON array: [ok, list]; an element is
\* [isMap, body] (the members of an object, or the one scalar)
RECURSIVE Elements(_)
Elements(toks) ==
    IF toks = << >> THEN [ok |-> TRUE, list |-> << >>]
    ELSE IF toks[1] = "("
    THEN LET close == CloseAt(toks, 2)
             body  == SubSeq(toks, 2, close - 1)
             rest  == Elements(SubSeq(toks, close + 1, Len(toks)))
         IN  IF close = 0 \/ \E i \in 1..Len(body) : ~IsScalar(body[i]) \/ ~rest.ok
             THEN [ok |-> FALSE, list |-> << >>]
             ELSE [ok |-> TRUE,
                   list |-> <<[isMap |-> TRUE, body |-> body]>> \o rest.list]
    ELSE LET rest == Elements(Tail(toks))
         IN  IF ~IsScalar(toks[1]) \/ ~rest.ok
             THEN [ok |-> FALSE, list |-> << >>]
             ELSE [ok |-> TRUE,
                   list |-> <<[isMap |-> FALSE, body |-> <<toks[1]>>]>> \o rest.list]

\* the value of member "p" as interface{}: kind is "nil", "scalar" or "list"
DecodePayload(toks) ==
    IF toks = << >> \/ toks = <<"null">>
    THEN [ok |-> TRUE, kind |-> Nil, list |-> << >>]
    ELSE IF Len(toks) = 1 /\ IsScalar(toks[1])
    THEN [ok |-> TRUE, kind |-> "scalar", list |-> << >>]
    ELSE IF Len(toks) >= 2 /\ toks[1] = "[" /\ toks[Len(toks)] = "]"
    THEN LET elems == Elements(SubSeq(toks, 2, Len(toks) - 1))
         IN  [ok |-> elems.ok, kind |-> "list", list |-> elems.list]
    ELSE [ok |-> FALSE, kind |-> Nil, list |-> << >>]

\* json.Unmarshal(msg, &decodedMessage) with decodedMessage a *SocketMessage:
\* err, or isNil (JSON null leaves the pointer nil), or Message and Payload
Unmarshal(msg) ==
    LET failed == [err |-> TRUE, isNil |-> FALSE, Message |-> "",
                   kind |-> Nil, list |-> << >>]
    IN  IF msg = <<"null">>
        THEN [err |-> FALSE, isNil |-> TRUE, Message |-> "", kind |-> Nil, list |-> << >>]
        ELSE IF Len(msg) < 2 \/ msg[1] # "{" \/ msg[Len(msg)] # "}"
        THEN failed
        ELSE LET inner == SubSeq(msg, 2, Len(msg) - 1)
             IN  IF inner = << >>
                 THEN [err |-> FALSE, isNil |-> FALSE, Message |-> "",
                       kind |-> Nil, list |-> << >>]
                 ELSE LET p == DecodePayload(Tail(inner))
                      IN  IF ~IsScalar(inner[1]) \/ ~p.ok THEN failed
                          ELSE [err |-> FALSE, isNil |-> FALSE, Message |-> inner[1],
                                kind |-> p.kind, list |-> p.list]

\* a *float64 member of QuoteData: "." is an absent key
FieldOk(tok) == tok = "." \/ IsDigit(tok)

Field(tok) == IF tok = "." THEN Nil ELSE tok

NoData == [Price |-> Nil, Volume |-> Nil, Bid |-> Nil, Ask |-> Nil]

\* mapstructure.Decode(p[1], &decodedQuoteMessage): QuoteMessage{Symbol,
\* Status, Data}; hasData is Data != nil
DecodeQuoteMessage(body) ==
    LET v == SubSeq(body, 3, Len(body))
        Symbol == IF Len(body) >= 1 THEN body[1] ELSE ""
        Status == IF Len(body) >= 2 THEN body[2] ELSE ""
    IN  IF v = << >> \/ v = <<"null">>
        THEN [err |-> FALSE, Symbol |-> Symbol, Status |-> Status,
              hasData |-> FALSE, Data |-> NoData]
        ELSE IF Len(v) = 4 /\ \A i \in 1..4 : FieldOk(v[i])
        THEN [err |-> FALSE, Symbol |-> Symbol, Status |-> Status, hasData |-> TRUE,
              Data |-> [Price |-> Field(v[1]), Volume |-> Field(v[2]),
                        Bid |-> Field(v[3]), Ask |-> Field(v[4])]]
        ELSE [err |-> TRUE, Symbol |-> "", Status |-> "",
              hasData |-> FALSE, Data |-> NoData]

\* json.Unmarshal(payload, &p) with p a map[string]interface{}, for the one
\* member checkFirstReceivedMessage looks at: [err, session_id]
UnmarshalMap(msg) ==
    IF msg = <<"null">> THEN [err |-> FALSE, session_id |-> Nil]
    ELSE IF Len(msg) < 2 \/ msg[1] # "{" \/ msg[Len(msg)] # "}"
    THEN [err |-> TRUE, session_id |-> Nil]
    ELSE LET inner == SubSeq(msg, 2, Len(msg) - 1)
         IN  IF inner = << >> THEN [err |-> FALSE, session_id |-> Nil]
             ELSE IF Len(inner) # 2 \/ ~IsScalar(inner[1]) \/ ~IsScalar(inner[2])
             THEN [err |-> TRUE, session_id |-> Nil]
             ELSE [err |-> FALSE,
                   session_id |-> IF inner[1] = "session_id" /\ inner[2] # "null"
                                  THEN inner[2] ELSE Nil]

\* json.Marshal of a SocketMessage {"m": m, "p": p}, p a list
Marshal(p) == <<"{", p.Message, "[">> \o p.Payload \o <<"]", "}">>

getSocketMessage(m, p) == [Message |-> m, Payload |-> p]

\* json.Marshal of getFlags()
getFlags == <<"(", "force_permission", ")">>

\* payloadWithHeader of sendSocketMessage
WithHeader(payload) ==
    <<"~", "m", "~">> \o Itoa(Len(payload)) \o <<"~", "m", "~">> \o payload

(***************************************************************************)
(* parseJSON                                                               *)
(***************************************************************************)
\* the result of parseJSON: kind "ok" (symbol, data), "err" (err != nil;
\* ctx is the context given to onError, "" when onError is not called) or
\* "panic" (a run-time panic of the goroutine)
JSONResult(kind, ctx, symbol, data) ==
    [kind |-> kind, ctx |-> ctx, symbol |-> symbol, data |-> data]

\* the error parseJSON returns for a message that is not "qsd"
IgnoredResult == JSONResult("err", "", "", NoData)

\* the check of the decoded quote message
QuoteMessageOkAlt(q) == q.Symbol # "" /\ q.hasData

QuoteMessageOk(q) == q.Status = "ok" /\ q.Symbol # "" /\ q.hasData

parseJSON(msg) ==
    LET decodedMessage == Unmarshal(msg)
    IN  IF decodedMessage.err
        THEN JSONResult("err", DecodeMessageErrorContext, "", NoData)
        ELSE IF decodedMessage.isNil
        THEN JSONResult("panic", "", "", NoData)
        ELSE IF decodedMessage.Message \in {"critical_error", "error"}
        THEN JSONResult("err", DecodedMessageHasErrorPropertyErrorContext, "", NoData)
        ELSE IF decodedMessage.Message # "qsd"
        THEN IgnoredResult
        ELSE IF decodedMessage.kind = Nil
        THEN JSONResult("err", DecodedMessageDoesNotIncludePayloadErrorContext, "", NoData)
        ELSE IF decodedMessage.kind # "list" \/ Len(decodedMessage.list) # 2
        THEN JSONResult("err", PayloadCantBeParsedErrorContext, "", NoData)
        ELSE IF ~decodedMessage.list[2].isMap
        THEN JSONResult("panic", "", "", NoData)
        ELSE LET decodedQuoteMessage == DecodeQuoteMessage(decodedMessage.list[2].body)
             IN  IF decodedQuoteMessage.err
                 THEN JSONResult("err", FinalPayloadCantBeParsedErrorContext, "", NoData)
                 ELSE IF ~QuoteMessageOk(decodedQuoteMessage)
                 THEN JSONResult("err", FinalPayloadHasMissingPropertiesErrorContext,
                                 "", NoData)
                 ELSE JSONResult("ok", "", decodedQuoteMessage.Symbol,
                                 decodedQuoteMessage.Data)

(***************************************************************************)
(* parsePacket                                                             *)
(***************************************************************************)
\* packet[lo:hi] of a slice whose backing array holds `spare` after the
\* len(packet) bytes: Go checks 0 <= lo <= hi <= cap(packet), not len
SliceOk(packet, spare, lo, hi) ==
    0 <= lo /\ lo <= hi /\ hi <= Len(packet) + Len(spare)

Slice(packet, spare, lo, hi) == SubSeq(packet \o spare, lo + 1, hi)

\* one turn of the first loop of parsePacket up to the new index: the length,
\* the header length, the payload and the index behind it.  exit is "" (the
\* payload was cut out), "return" (the length error) or "panic"
NextFrameAlt(packet, spare, index) ==
    LET pl == getPayloadLength(SubSeq(packet, index + 1, Len(packet)))
        lo == index + 7
        hi == index + 7 + pl.length
    IN  IF pl.panic \/ (~pl.err /\ ~SliceOk(packet, spare, lo, hi))
        THEN [exit |-> "panic", payload |-> << >>, index |-> index]
        ELSE IF pl.err THEN [exit |-> "return", payload |-> << >>, index |-> index]
        ELSE [exit |-> "", payload |-> Slice(packet, spare, lo, hi), index |-> hi]

NextFrame(packet, spare, index) ==
    LET pl == getPayloadLength(SubSeq(packet, index + 1, Len(packet)))
        payloadLength == pl.length
        headerLength == 6 + Len(Itoa(payloadLength))
        lo == index + headerLength
        hi == index + headerLength + payloadLength
        payload == Slice(packet, spare, lo, hi)
    IN  IF pl.panic THEN [exit |-> "panic", payload |-> << >>, index |-> index]
        ELSE IF pl.err THEN [exit |-> "return", payload |-> << >>, index |-> index]
        ELSE IF ~SliceOk(packet, spare, lo, hi)
        THEN [exit |-> "panic", payload |-> << >>, index |-> index]
        ELSE [exit |-> "", payload |-> payload,
              index |-> index + headerLength + Len(payload)]

\* the first loop of parsePacket from `index` on, with the quotes collected
\* so far: [exit, ctx, arr].  exit is "end" (the loop ended, by its condition
\* or by break), "return" (the return after a length error) or "panic";
\* ctx is the context of the one onError call made, "" if none; arr is
\* symbolsArr and dataArr, zipped
RECURSIVE SplitLoop(_, _, _, _)
SplitLoop(packet, spare, index, arr) ==
    IF ~(index < Len(packet)) THEN [exit |-> "end", ctx |-> "", arr |-> arr]
    ELSE
    LET frame == NextFrame(packet, spare, index)
        res == parseJSON(frame.payload)
    IN  IF frame.exit = "panic" THEN [exit |-> "panic", ctx |-> "", arr |-> arr]
        ELSE IF frame.exit = "return"
        THEN [exit |-> "return", ctx |-> GetPayloadLengthErrorContext, arr |-> arr]
        ELSE IF res.kind = "panic" THEN [exit |-> "panic", ctx |-> "", arr |-> arr]
        ELSE IF res.kind = "err" THEN [exit |-> "end", ctx |-> res.ctx, arr |-> arr]
        ELSE SplitLoop(packet, spare, frame.index,
                       Append(arr, [symbol |-> res.symbol, data |-> res.data]))

\* GetStringRepresentation(data): the text of the four members of QuoteData
GetStringRepresentation(data) ==
    <<"{", data.Price, data.Volume, data.Bid, data.Ask, "}">>

\* isDuplicate of the second loop of parsePacket, for index i (from 1)
isDuplicateAlt(arr, i) == FALSE

isDuplicate(arr, i) ==
    \E j \in (i + 1)..Len(arr) :
        GetStringRepresentation(arr[i].data) = GetStringRepresentation(arr[j].data)

\* the calls of OnReceiveMarketDataCallback the second loop makes, in order
RECURSIVE DispatchFrom(_, _)
DispatchFrom(arr, i) ==
    IF i > Len(arr) THEN << >>
    ELSE IF isDuplicate(arr, i) THEN DispatchFrom(arr, i + 1)
    ELSE <<arr[i]>> \o DispatchFrom(arr, i + 1)

(***************************************************************************)
(* What the peer may send                                                  *)
(***************************************************************************)
\* a quote push {"m":"qsd","p":["s1",{"n":n,"s":st,"v":v}]}
QsdDoc(n, st, v) == <<"{", "qsd", "[", "s1", "(", n, st>> \o v \o <<")", "]", "}">>

\* price 1 and ask 1; the same with ask 2
DataAsk1 == <<"1", ".", ".", "1">>
DataAsk2 == <<"1", ".", ".", "2">>

QuoteA1 == QsdDoc("A", "ok", DataAsk1)
QuoteA2 == QsdDoc("A", "ok", DataAsk2)
QuoteNotOk == QsdDoc("A", "error", DataAsk1)
QuoteNoSymbol == QsdDoc("", "ok", DataAsk1)
QuoteNullData == QsdDoc("A", "ok", <<"null">>)
\* the quote of another symbol with the data of QuoteA1
QuoteB1 == QsdDoc("B", "ok", DataAsk1)
\* a control acknowledgement, and the server's error messages
AckDoc == <<"{", "quote_completed", "[", "s1", "A", "]", "}">>
CriticalErrorDoc == <<"{", "critical_error", "}">>
ErrorDoc == <<"{", "error", "}">>
HeartbeatPayload == <<"~", "h", "~", "1">>

\* a frame whose length token is `token`
FrameWith(token, payload) == <<"~", "m", "~">> \o token \o <<"~", "m", "~">> \o payload

\* a well-formed frame
Frame(payload) == FrameWith(Itoa(Len(payload)), payload)

Heartbeat == Frame(HeartbeatPayload)

\* the text buffers a receive may return
OneQuote == Frame(QuoteA1)
SameQuoteTwice == Frame(QuoteA1) \o Frame(QuoteA1)
AskDiffers == Frame(QuoteA1) \o Frame(QuoteA2)
AckThenQuote == Frame(AckDoc) \o Frame(QuoteA1)
CriticalError == Frame(CriticalErrorDoc)
QuoteThenError == Frame(QuoteA2) \o Frame(ErrorDoc)
QuoteThenNotOk == Frame(QuoteA2) \o Frame(QuoteNotOk)
NoSymbol == Frame(QuoteNoSymbol)
NullData == Frame(QuoteNullData)
NotJSON == Frame(<<"x">>)
LengthNotANumber == FrameWith(<<"x">>, QuoteA1)
LengthNegative == FrameWith(<<"-", "1">>, QuoteA1)
LengthNotEnded == <<"~", "m", "~", "x">>
LengthTooLong == FrameWith(Itoa(Len(AckDoc) + 1), AckDoc)
QuoteCutShort == FrameWith(Itoa(Len(QuoteA1)), SubSeq(QuoteA1, 1, Len(QuoteA1) - 1))
TwoSymbols == Frame(QuoteA1) \o Frame(QuoteB1)
RepeatedLater == Frame(QuoteA1) \o Frame(QuoteA2) \o Frame(QuoteA1)
\* {"m":"qsd","p":["s1","x"]}: the second element is a string
SecondNotObject == Frame(<<"{", "qsd", "[", "s1", "x", "]", "}">>)

Packets ==
    { Heartbeat, OneQuote, SameQuoteTwice, AskDiffers, AckThenQuote, CriticalError,
      QuoteThenError, QuoteThenNotOk, NoSymbol, NullData, NotJSON, LengthNotANumber,
      LengthNegative, LengthNotEnded, LengthTooLong, QuoteCutShort, TwoSymbols,
      RepeatedLater, SecondNotObject }

\* the bytes that may lie in the backing array behind a received slice
SpareBytes == {"}", "?"}

RECURSIVE SeqsUpTo(_, _)
SeqsUpTo(S, n) ==
    IF n = 0 THEN {<< >>}
    ELSE LET shorter == SeqsUpTo(S, n - 1)
         IN  shorter \cup {Append(q, x) : q \in shorter, x \in S}

Spares == SeqsUpTo(SpareBytes, MaxSlack)

\* the payloads of the frames given to the splitting step alone: empty, one
\* byte, with "~" in it, with a whole frame in it, and of ten bytes and more
FramePayloads ==
    { << >>, <<"x">>, HeartbeatPayload, Frame(<<"x">>), QuoteA1, QuoteA2 }

\* the concatenation of the well-formed frames of the payloads
RECURSIVE Frames(_)
Frames(payloads) ==
    IF payloads = << >> THEN << >>
    ELSE Frame(Head(payloads)) \o Frames(Tail(payloads))

\* the first message of the connection
FirstMessages ==
    { Frame(<<"{", "session_id", "abc", "}">>),
      Frame(<<"{", "session_id", "null", "}">>),
      Frame(<<"{", "}">>),
      Frame(<<"x">>),
      <<"~", "m", "~">> }

\* the identifier generateSessionID produces: "qs_" and twelve random
\* characters (one value stands for all: the socket never compares two)
SessionIDs == {"qs_aaaaaaaaaaaa"}

\* the symbols the caller subscribes to
Symbols == {"A"}

(***************************************************************************)
(* State                                                                   *)
(***************************************************************************)
VARIABLES
    pc,          \* where Connect/Init stands: "start", "dialed", "checked",
                 \* "generated", "returned"
    initErr,     \* the error Init returned is non-nil
    crashed,     \* a goroutine panicked: the process is gone
    conn,        \* s.conn: Nil, "open", or "closed" (conn.Close() was called)
    isClosed,    \* s.isClosed
    sessionID,   \* s.sessionID
    wfail,       \* the transport's write side has failed (the error stays)
    loopPc,      \* connectionLoop: "none", "loop", "after", "done"
    readMsgError,            \* connectionLoop's readMsgError != nil
    writeKeepAliveMsgError,  \* connectionLoop's writeKeepAliveMsgError != nil
    received,    \* the messages ReadMessage returned to the loop, in order
    tasks,       \* tasks[i]: the goroutines started for received[i]:
                 \* "handle" (started), "echo" (inside s.conn.WriteMessage
                 \* with the keep-alive message), "done" or "panic"
    pending,     \* the caller's AddSymbol / RemoveSymbol call that is inside
                 \* s.conn.WriteMessage, if any: << >> or <<[op, p, errsBefore]>>
    calls,       \* the caller's calls after Connect: [op, err, write, errsBefore]:
                 \* the error returned, the index in writes of the call's
                 \* WriteMessage (0: none), and Len(errCalls) when it was made
    writes,      \* the WriteMessage calls: [data, ok]
    errCalls,    \* the OnErrorCallback calls: [ctx, conn, rcv]
    quoteCalls,  \* the OnReceiveMarketDataCallback calls: [rcv, symbol, data]
    fatal,       \* number of failures met while streaming that closing the
                 \* connection did not cause: read errors, failed keep-alive
                 \* echoes, and errors of parsePacket
    splitRun     \* the first loop of parsePacket run on its own, without
                 \* parseJSON: [frames, packet, spare, index, payloads, exit]

socketVars == <<pc, initErr, crashed, conn, isClosed, sessionID, wfail, loopPc,
                readMsgError, writeKeepAliveMsgError, received, tasks, pending, calls,
                writes, errCalls, quoteCalls, fatal>>

vars == <<socketVars, splitRun>>

\* the splitting step before its first turn on the frames of `payloads`
SplitStart(payloads, spare) ==
    [frames |-> payloads, packet |-> Frames(payloads), spare |-> spare,
     index |-> 0, payloads |-> << >>, exit |-> "loop"]

InitSocket ==
    /\ pc = "start"
    /\ initErr = FALSE
    /\ crashed = FALSE
    /\ conn = Nil
    /\ isClosed = FALSE
    /\ sessionID = ""
    /\ wfail = FALSE
    /\ loopPc = "none"
    /\ readMsgError = FALSE
    /\ writeKeepAliveMsgError = FALSE
    /\ received = << >>
    /\ tasks = << >>
    /\ pending = << >>
    /\ calls = << >>
    /\ writes = << >>
    /\ errCalls = << >>
    /\ quoteCalls = << >>
    /\ fatal = 0

Init ==
    /\ InitSocket
    /\ splitRun = SplitStart(<< >>, << >>)

(***************************************************************************)
(* The transport (gorilla/websocket), as socket.go uses it                 *)
(***************************************************************************)
\* the results WriteMessage may have: TRUE is a nil error
WriteOutcomes(c, failed) == IF c = "open" /\ ~failed THEN {TRUE, FALSE} ELSE {FALSE}

\* ReadMessage fails on a connection that conn.Close() has closed
ReadFailsAlt(c) == c = Nil

ReadFails(c) == c # "open"

(***************************************************************************)
(* onError                                                                 *)
(***************************************************************************)
\* s.conn after onError: the connection is closed before the callback runs
onErrorConnAlt(c) == c

onErrorConn(c) == IF c # Nil THEN "closed" ELSE c

\* the log of callbacks after onError(err, context), called with s.conn = c
\* from the task of receive rcv (0: not from a task)
onError(log, c, context, rcv) ==
    Append(log, [ctx |-> context, conn |-> onErrorConn(c), rcv |-> rcv])

(***************************************************************************)
(* Connect / Init                                                          *)
(***************************************************************************)
\* Init up to the Dial and its error check
Dial ==
    /\ pc = "start" /\ ~crashed
    /\ isClosed' = TRUE
    /\ \/ /\ conn' = "open"
          /\ pc' = "dialed"
          /\ UNCHANGED <<initErr, errCalls>>
       \/ /\ conn' = Nil
          /\ errCalls' = onError(errCalls, Nil, InitErrorContext, 0)
          /\ pc' = "returned"
          /\ initErr' = TRUE
    /\ UNCHANGED <<pending, splitRun>>
    /\ UNCHANGED <<crashed, sessionID, wfail, loopPc, readMsgError,
                   writeKeepAliveMsgError, received, tasks, calls, writes,
                   quoteCalls, fatal>>

\* the context of the error checkFirstReceivedMessage reports for msg: "" when
\* it returns nil, "panic" when it panics
FirstMessageCheck(msg) ==
    LET start == getPayloadStartingIndex(msg)
        p == UnmarshalMap(SubSeq(msg, start.index + 1, Len(msg)))
    IN  IF start.panic \/ start.index > Len(msg) THEN "panic"
        ELSE IF p.err THEN DecodeFirstMessageErrorContext
        ELSE IF p.session_id = Nil THEN FirstMessageWithoutSessionIdErrorContext
        ELSE ""

\* checkFirstReceivedMessage and the error check of Init after it
CheckFirstReceivedMessage ==
    /\ pc = "dialed" /\ ~crashed
    /\ \/ /\ errCalls' = onError(errCalls, conn, ReadFirstMessageErrorContext, 0)
          /\ conn' = onErrorConn(conn)
          /\ pc' = "returned"
          /\ initErr' = TRUE
          /\ UNCHANGED crashed
       \/ \E msg \in FirstMessages :
            LET ctx == FirstMessageCheck(msg)
            IN  IF ctx = "panic"
                THEN /\ crashed' = TRUE
                     /\ UNCHANGED <<pc, initErr, conn, errCalls>>
                ELSE IF ctx # ""
                THEN /\ errCalls' = onError(errCalls, conn, ctx, 0)
                     /\ conn' = onErrorConn(conn)
                     /\ pc' = "returned"
                     /\ initErr' = TRUE
                     /\ UNCHANGED crashed
                ELSE /\ pc' = "checked"
                     /\ UNCHANGED <<initErr, conn, errCalls, crashed>>
    /\ UNCHANGED <<pending, splitRun>>
    /\ UNCHANGED <<isClosed, sessionID, wfail, loopPc, readMsgError,
                   writeKeepAliveMsgError, received, tasks, calls, writes,
                   quoteCalls, fatal>>

\* generateSessionID: "qs_" + GetRandomString(12)
generateSessionID ==
    /\ pc = "checked" /\ ~crashed
    /\ sessionID' \in SessionIDs
    /\ pc' = "generated"
    /\ UNCHANGED <<pending, splitRun>>
    /\ UNCHANGED <<initErr, crashed, conn, isClosed, wfail, loopPc,
                   readMsgError, writeKeepAliveMsgError, received, tasks, calls,
                   writes, errCalls, quoteCalls, fatal>>

\* the messages of sendConnectionSetupMessages
setupMessagesAlt(sid) ==
    << getSocketMessage("quote_create_session", <<sid>>),
       getSocketMessage("set_auth_token", <<"unauthorized_user_token">>),
       getSocketMessage("quote_set_fields", <<sid, "lp", "volume", "bid", "ask">>) >>

setupMessages(sid) ==
    << getSocketMessage("set_auth_token", <<"unauthorized_user_token">>),
       getSocketMessage("quote_create_session", <<sid>>),
       getSocketMessage("quote_set_fields", <<sid, "lp", "volume", "bid", "ask">>) >>

\* the WriteMessage call of sendSocketMessage(p) and its result
sendSocketMessage(p, ok) == [data |-> WithHeader(Marshal(p)), ok |-> ok]

\* the WriteMessage calls of sendConnectionSetupMessages when the first k
\* messages are written and the next one, if any, fails
setupWrites(sid, k) ==
    LET messages == setupMessages(sid)
    IN  [i \in 1..(IF k < Len(messages) THEN k + 1 ELSE k) |->
            sendSocketMessage(messages[i], i <= k)]

\* sendConnectionSetupMessages and the rest of Init
SendConnectionSetupMessages ==
    /\ pc = "generated" /\ ~crashed
    /\ \E k \in 0..Len(setupMessages(sessionID)) :
        /\ k > 0 => TRUE \in WriteOutcomes(conn, wfail)
        /\ writes' = writes \o setupWrites(sessionID, k)
        /\ IF k < Len(setupMessages(sessionID))
           THEN /\ wfail' = TRUE
                /\ errCalls' = onError(
                       onError(errCalls, conn, SendMessageErrorContext, 0),
                       onErrorConn(conn), ConnectionSetupMessagesErrorContext, 0)
                /\ conn' = onErrorConn(onErrorConn(conn))
                /\ initErr' = TRUE
                /\ UNCHANGED <<isClosed, loopPc>>
           ELSE /\ isClosed' = FALSE
                /\ loopPc' = "loop"
                /\ UNCHANGED <<wfail, errCalls, conn, initErr>>
    /\ pc' = "returned"
    /\ UNCHANGED <<pending, splitRun>>
    /\ UNCHANGED <<crashed, sessionID, readMsgError, writeKeepAliveMsgError,
                   received, tasks, calls, quoteCalls, fatal>>

(***************************************************************************)
(* The caller, once Connect has returned the socket without an error       *)
(***************************************************************************)
CallerReady ==
    pc = "returned" /\ ~initErr /\ ~crashed /\ Len(calls) < MaxCalls /\ pending = << >>

\* AddSymbol / RemoveSymbol: sendSocketMessage(p) up to its call of
\* s.conn.WriteMessage, which the caller's goroutine is now in
Send(op, p) ==
    /\ CallerReady
    /\ pending' = <<[op |-> op, p |-> p, errsBefore |-> Len(errCalls)]>>
    /\ UNCHANGED <<pc, initErr, crashed, conn, isClosed, sessionID, wfail, loopPc,
                   readMsgError, writeKeepAliveMsgError, received, tasks, calls,
                   writes, errCalls, quoteCalls, fatal>>
    /\ UNCHANGED splitRun

\* the WriteMessage of the caller's call returns, and sendSocketMessage and
\* AddSymbol / RemoveSymbol after it
SendReturns ==
    /\ pending # << >> /\ ~crashed
    /\ \E ok \in WriteOutcomes(conn, wfail) :
        /\ writes' = Append(writes, sendSocketMessage(pending[1].p, ok))
        /\ calls' = Append(calls, [op |-> pending[1].op, err |-> ~ok,
                                   write |-> Len(writes) + 1,
                                   errsBefore |-> pending[1].errsBefore])
        /\ IF ok
           THEN UNCHANGED <<wfail, errCalls, conn>>
           ELSE /\ wfail' = TRUE
                /\ errCalls' = onError(errCalls, conn, SendMessageErrorContext, 0)
                /\ conn' = onErrorConn(conn)
    /\ pending' = << >>
    /\ UNCHANGED <<pc, initErr, crashed, isClosed, sessionID, loopPc, readMsgError,
                   writeKeepAliveMsgError, received, tasks, quoteCalls, fatal>>
    /\ UNCHANGED splitRun

AddSymbol ==
    \E symbol \in Symbols :
        Send("AddSymbol",
             getSocketMessage("quote_add_symbols", <<sessionID, symbol>> \o getFlags))

RemoveSymbol ==
    \E symbol \in Symbols :
        Send("RemoveSymbol",
             getSocketMessage("quote_remove_symbols", <<sessionID, symbol>>))

Close ==
    /\ CallerReady
    /\ isClosed' = TRUE
    /\ conn' = "closed"
    /\ calls' = Append(calls, [op |-> "Close", err |-> conn # "open", write |-> 0,
                               errsBefore |-> Len(errCalls)])
    /\ UNCHANGED <<pending, splitRun>>
    /\ UNCHANGED <<pc, initErr, crashed, sessionID, wfail, loopPc,
                   readMsgError, writeKeepAliveMsgError, received, tasks, writes,
                   errCalls, quoteCalls, fatal>>

(***************************************************************************)
(* connectionLoop                                                          *)
(***************************************************************************)
\* what the loop may have seen of a flag another goroutine sets without
\* synchronisation, when it evaluated its condition before ReadMessage
\* returned: the flag, or its value before it was set
RacyRead(flag) == {flag, FALSE}

\* the loop condition and the isClosed check let the loop go on: it may
\* have read the flags before another goroutine set them
LoopContinues ==
    \E seenError \in RacyRead(writeKeepAliveMsgError), seenClosed \in RacyRead(isClosed) :
        ~readMsgError /\ ~seenError /\ ~seenClosed

\* the loop condition or the isClosed check ends the loop
LoopEnds ==
    \E seenError \in RacyRead(writeKeepAliveMsgError), seenClosed \in RacyRead(isClosed) :
        readMsgError \/ seenError \/ seenClosed

\* one turn of the loop in which s.conn.ReadMessage() returns an error; the
\* goroutine started for it returns at once (msgType is not TextMessage)
LoopReadError ==
    /\ loopPc = "loop" /\ ~crashed
    /\ LoopContinues
    /\ readMsgError' = TRUE
    /\ fatal' = IF ReadFails(conn) THEN fatal ELSE fatal + 1
    /\ UNCHANGED <<pending, splitRun>>
    /\ UNCHANGED <<pc, initErr, crashed, conn, isClosed, sessionID, wfail, loopPc,
                   writeKeepAliveMsgError, received, tasks, calls, writes,
                   errCalls, quoteCalls>>

\* one turn of the loop in which s.conn.ReadMessage() returns a message and
\* the goroutine for it is started
LoopReadMessage ==
    /\ loopPc = "loop" /\ ~crashed
    /\ LoopContinues
    /\ ~ReadFails(conn)
    /\ Len(received) < MaxReceives
    /\ \/ \E msg \in Packets :
            received' = Append(received, [msgType |-> TextMessage, msg |-> msg])
       \/ received' = Append(received, [msgType |-> BinaryMessage, msg |-> << >>])
    /\ tasks' = Append(tasks, "handle")
    /\ UNCHANGED <<pending, splitRun>>
    /\ UNCHANGED <<pc, initErr, crashed, conn, isClosed, sessionID, wfail, loopPc,
                   readMsgError, writeKeepAliveMsgError, calls, writes, errCalls,
                   quoteCalls, fatal>>

\* the loop ends
LoopExit ==
    /\ loopPc = "loop" /\ ~crashed
    /\ LoopEnds
    /\ loopPc' = "after"
    /\ UNCHANGED <<pending, splitRun>>
    /\ UNCHANGED <<pc, initErr, crashed, conn, isClosed, sessionID, wfail,
                   readMsgError, writeKeepAliveMsgError, received, tasks, calls,
                   writes, errCalls, quoteCalls, fatal>>

\* the two reports after the loop
LoopAfter ==
    /\ loopPc = "after" /\ ~crashed
    /\ LET afterRead == IF readMsgError
                        THEN onError(errCalls, conn, ReadMessageErrorContext, 0)
                        ELSE errCalls
           connAfterRead == IF readMsgError THEN onErrorConn(conn) ELSE conn
       IN  /\ errCalls' = IF writeKeepAliveMsgError
                          THEN onError(afterRead, connAfterRead,
                                       SendKeepAliveMessageErrorContext, 0)
                          ELSE afterRead
           /\ conn' = IF writeKeepAliveMsgError THEN onErrorConn(connAfterRead)
                      ELSE connAfterRead
    /\ loopPc' = "done"
    /\ UNCHANGED <<pending, splitRun>>
    /\ UNCHANGED <<pc, initErr, crashed, isClosed, sessionID, wfail,
                   readMsgError, writeKeepAliveMsgError, received, tasks, calls,
                   writes, quoteCalls, fatal>>

(***************************************************************************)
(* The goroutines started for a received message                           *)
(***************************************************************************)
\* the calls of OnReceiveMarketDataCallback parsePacket makes for receive i
\* once its first loop ended with `split`
parsePacketCallsAlt(i, split) ==
    IF split.exit = "return" THEN << >>
    ELSE LET fresh(q) == \A k \in 1..Len(quoteCalls) :
                            \/ quoteCalls[k].symbol # q.symbol
                            \/ quoteCalls[k].data # q.data
             kept == SelectSeq(DispatchFrom(split.arr, 1), fresh)
         IN  [k \in 1..Len(kept) |->
                [rcv |-> i, symbol |-> kept[k].symbol, data |-> kept[k].data]]

parsePacketCalls(i, split) ==
    IF split.exit = "return" THEN << >>
    ELSE [k \in 1..Len(DispatchFrom(split.arr, 1)) |->
            [rcv |-> i, symbol |-> DispatchFrom(split.arr, 1)[k].symbol,
             data |-> DispatchFrom(split.arr, 1)[k].data]]

\* the anonymous goroutine of connectionLoop: it returns, or calls
\* s.conn.WriteMessage with a keep-alive message, or starts parsePacket, which
\* runs to its end
HandleMessage(i) ==
    /\ tasks[i] = "handle" /\ ~crashed
    /\ LET msgType == received[i].msgType
           msg == received[i].msg
       IN  IF msgType # TextMessage
           THEN /\ tasks' = [tasks EXCEPT ![i] = "done"]
                /\ UNCHANGED <<crashed, writes, writeKeepAliveMsgError, wfail, fatal,
                               errCalls, quoteCalls, conn>>
           ELSE IF isKeepAliveMsg(msg).panic
           THEN /\ crashed' = TRUE
                /\ tasks' = [tasks EXCEPT ![i] = "panic"]
                /\ UNCHANGED <<writes, writeKeepAliveMsgError, wfail, fatal,
                               errCalls, quoteCalls, conn>>
           ELSE IF isKeepAliveMsg(msg).keepAlive
           THEN /\ tasks' = [tasks EXCEPT ![i] = "echo"]
                /\ UNCHANGED <<crashed, writes, writeKeepAliveMsgError, wfail, fatal,
                               errCalls, quoteCalls, conn>>
           ELSE \E spare \in Spares :
                    LET split == SplitLoop(msg, spare, 0, << >>)
                    IN  IF split.exit = "panic"
                        THEN /\ crashed' = TRUE
                             /\ tasks' = [tasks EXCEPT ![i] = "panic"]
                             /\ UNCHANGED <<errCalls, quoteCalls, conn, fatal, writes,
                                            writeKeepAliveMsgError, wfail>>
                        ELSE /\ tasks' = [tasks EXCEPT ![i] = "done"]
                             /\ quoteCalls' = quoteCalls \o parsePacketCalls(i, split)
                             /\ IF split.ctx # ""
                                THEN /\ errCalls' = onError(errCalls, conn, split.ctx, i)
                                     /\ conn' = onErrorConn(conn)
                                     /\ fatal' = fatal + 1
                                ELSE UNCHANGED <<errCalls, conn, fatal>>
                             /\ UNCHANGED <<crashed, writes, writeKeepAliveMsgError,
                                            wfail>>
    /\ UNCHANGED <<pending, splitRun>>
    /\ UNCHANGED <<pc, initErr, isClosed, sessionID, loopPc, readMsgError, received,
                   calls>>

\* the WriteMessage of a keep-alive message returns: its error is stored in
\* writeKeepAliveMsgError and the goroutine returns
EchoReturns(i) ==
    /\ tasks[i] = "echo" /\ ~crashed
    /\ \E ok \in WriteOutcomes(conn, wfail) :
        /\ writes' = Append(writes, [data |-> received[i].msg, ok |-> ok])
        /\ writeKeepAliveMsgError' = ~ok
        /\ wfail' = (wfail \/ ~ok)
        /\ fatal' = IF ~ok /\ conn = "open" THEN fatal + 1 ELSE fatal
    /\ tasks' = [tasks EXCEPT ![i] = "done"]
    /\ UNCHANGED <<pc, initErr, crashed, conn, isClosed, sessionID, loopPc,
                   readMsgError, received, calls, errCalls, quoteCalls>>
    /\ UNCHANGED <<pending, splitRun>>

Next ==
    \/ Dial
    \/ CheckFirstReceivedMessage
    \/ generateSessionID
    \/ SendConnectionSetupMessages
    \/ AddSymbol
    \/ RemoveSymbol
    \/ SendReturns
    \/ Close
    \/ LoopReadError
    \/ LoopReadMessage
    \/ LoopExit
    \/ LoopAfter
    \/ \E i \in 1..Len(tasks) : HandleMessage(i)
    \/ \E i \in 1..Len(tasks) : EchoReturns(i)

Spec == Init /\ [][Next]_vars

\* The first loop of parsePacket on its own: one turn cuts one payload out
\* of the buffer (what parseJSON makes of it is left out)
SplitFrame ==
    /\ splitRun.exit = "loop"
    /\ splitRun.index < Len(splitRun.packet)
    /\ LET frame == NextFrame(splitRun.packet, splitRun.spare, splitRun.index)
       IN  splitRun' = IF frame.exit # ""
                       THEN [splitRun EXCEPT !.exit = frame.exit]
                       ELSE [splitRun EXCEPT !.index = frame.index,
                                             !.payloads = Append(@, frame.payload)]
    /\ UNCHANGED socketVars

\* the loop condition ends the loop
SplitEnd ==
    /\ splitRun.exit = "loop"
    /\ ~(splitRun.index < Len(splitRun.packet))
    /\ splitRun' = [splitRun EXCEPT !.exit = "end"]
    /\ UNCHANGED socketVars

SplitInit ==
    /\ InitSocket
    /\ \E payloads \in SeqsUpTo(FramePayloads, MaxFrames), spare \in Spares :
        splitRun = SplitStart(payloads, spare)

SplitNext == SplitFrame \/ SplitEnd

SplitSpec == SplitInit /\ [][SplitNext]_vars

\* The goroutine of connectionLoop is scheduled: it takes the steps that wait
\* for nothing the peer does.  A ReadMessage on a closed connection returns
\* its error; once readMsgError is set the loop condition ends the loop; the
\* reports after the loop are made.  A read on an open connection may block
\* for ever, and a loop blocked in it does not look at the flags the other
\* goroutines set: these steps are not required to happen.
LoopReadErrorOnClosed == LoopReadError /\ ReadFails(conn)

LoopExitOnReadError == LoopExit /\ readMsgError

LiveSpec ==
    /\ Spec
    /\ WF_vars(LoopReadErrorOnClosed)
    /\ WF_vars(LoopExitOnReadError)
    /\ WF_vars(LoopAfter)

(***************************************************************************)
(* Properties                                                              *)
(***************************************************************************)
\* the callbacks made for receive i
CallsFor(i) == {k \in 1..Len(quoteCalls) : quoteCalls[k].rcv = i}

ErrorsFor(i) == {k \in 1..Len(errCalls) : errCalls[k].rcv = i}

ErrorsWith(i, context) == {k \in ErrorsFor(i) : errCalls[k].ctx = context}

\* the value a callback was given
Quote(symbol, price, volume, bid, ask) ==
    [symbol |-> symbol,
     data |-> [Price |-> price, Volume |-> volume, Bid |-> bid, Ask |-> ask]]

Given(k) == [symbol |-> quoteCalls[k].symbol, data |-> quoteCalls[k].data]

\* receive i returned the text buffer msg
Received(i, msg) == received[i].msgType = TextMessage /\ received[i].msg = msg

\* the envelope a WriteMessage call carried
Written(w) ==
    Unmarshal(SubSeq(w.data, getPayloadStartingIndex(w.data).index + 1, Len(w.data)))

FirstArgument(w) == Written(w).list[1].body[1]

SetupNames == <<"set_auth_token", "quote_create_session", "quote_set_fields">>

HandshakeDone == pc = "returned" /\ ~initErr

\* C1: the handshake writes nothing before the first message has been read
\* and accepted, then writes set_auth_token, quote_create_session and
\* quote_set_fields in this order, each only after the one before it was
\* written, the last two with the generated session identifier; no other
\* write carries a setup command, and the handshake succeeds only with all
\* three written.
C1_SetupCommandsInOrder ==
    /\ pc \in {"start", "dialed", "checked", "generated"} => writes = << >>
    /\ writes # << >> => sessionID \in SessionIDs
    /\ \A i \in 1..Len(writes) :
        IF i <= Len(SetupNames)
        THEN /\ Written(writes[i]).Message = SetupNames[i]
             /\ i > 1 => writes[i - 1].ok /\ FirstArgument(writes[i]) = sessionID
        ELSE \A n \in 1..Len(SetupNames) : Written(writes[i]).Message # SetupNames[n]
    /\ HandshakeDone =>
        /\ Len(writes) >= Len(SetupNames)
        /\ \A i \in 1..Len(SetupNames) : writes[i].ok

C1_Witness == HandshakeDone /\ Len(writes) = Len(SetupNames) /\ loopPc = "loop"

\* C2: the loop is started and Init returns nil only after all three setup
\* commands were written; a failed step ends the handshake with a non-nil
\* error returned, the loop not started and the transport closed.
C2_HandshakeAllOrNothing ==
    /\ (loopPc # "none" \/ HandshakeDone) =>
        /\ Len(writes) >= Len(SetupNames)
        /\ \A i \in 1..Len(SetupNames) : writes[i].ok
    /\ (pc = "returned" /\ initErr) => loopPc = "none" /\ conn # "open"
    /\ pc # "returned" => ~crashed

\* C3: a receive of two identical quotes calls onQuote once for it; a
\* receive of two quotes of one symbol that differ in the ask only calls
\* onQuote for each.
C3_DuplicateDispatchedOnce ==
    \A i \in 1..Len(received) :
        /\ Received(i, SameQuoteTwice) =>
            /\ \A k \in CallsFor(i) : Given(k) = Quote("A", "1", Nil, Nil, "1")
            /\ Cardinality(CallsFor(i)) <= 1
            /\ tasks[i] = "done" => Cardinality(CallsFor(i)) = 1
        /\ (Received(i, AskDiffers) /\ tasks[i] = "done") =>
            /\ Cardinality(CallsFor(i)) = 2
            /\ \E k \in CallsFor(i) : Given(k) = Quote("A", "1", Nil, Nil, "1")
            /\ \E k \in CallsFor(i) : Given(k) = Quote("A", "1", Nil, Nil, "2")

C3_Witness ==
    /\ \E i \in 1..Len(received) :
        Received(i, SameQuoteTwice) /\ tasks[i] = "done"
    /\ \E i \in 1..Len(received) :
        Received(i, AskDiffers) /\ tasks[i] = "done"

\* the byte after the header "~m~<digits>~m~" of msg is "~"
HeartbeatText(msg) ==
    \E n \in 1..Len(msg) :
        /\ Len(msg) >= n + 7
        /\ SubSeq(msg, 1, 3) = <<"~", "m", "~">>
        /\ \A j \in 4..(n + 3) : IsDigit(msg[j])
        /\ SubSeq(msg, n + 4, n + 6) = <<"~", "m", "~">>
        /\ msg[n + 7] = "~"

\* C4: a text message whose first payload byte is "~" is written back, one
\* WriteMessage call with the bytes received for each such message handled,
\* and never reaches parsePacket: no onQuote call, no onError call and no
\* panic comes from it.
C4_HeartbeatEchoed ==
    \A i \in 1..Len(received) :
        (received[i].msgType = TextMessage /\ HeartbeatText(received[i].msg)) =>
            /\ CallsFor(i) = {} /\ ErrorsFor(i) = {}
            /\ tasks[i] \in {"handle", "echo", "done"}
            /\ Cardinality({k \in 1..Len(writes) : writes[k].data = received[i].msg})
                 = Cardinality({j \in 1..Len(received) :
                                   /\ Received(j, received[i].msg)
                                   /\ tasks[j] = "done"})

C4_Witness ==
    \E i \in 1..Len(received) :
        /\ received[i].msgType = TextMessage /\ HeartbeatText(received[i].msg)
        /\ tasks[i] = "done"
        /\ \E k \in 1..Len(writes) : writes[k].data = received[i].msg /\ writes[k].ok

\* C5: a payload that is not qsd, error or critical_error is dropped without
\* an onError call and the payloads after it are still decoded: the quote
\* that follows it in the receive is given to onQuote.
C5_IgnoredMessageKeepsRest ==
    \A i \in 1..Len(received) :
        Received(i, AckThenQuote) =>
            /\ ErrorsFor(i) = {}
            /\ tasks[i] = "done" =>
                 \E k \in CallsFor(i) : Given(k) = Quote("A", "1", Nil, Nil, "1")

\* C6: while streaming, and as long as the caller neither closes the socket
\* nor has a call fail, every onError callback runs with the transport
\* closed, there are never more onError callbacks than failures that were
\* not themselves caused by closing the connection, and when the loop has
\* ended each of them has been reported.
C6_FatalReportedOnce ==
    (loopPc # "none" /\ \A c \in 1..Len(calls) : calls[c].op # "Close" /\ ~calls[c].err) =>
        /\ \A k \in 1..Len(errCalls) : errCalls[k].conn = "closed"
        /\ Len(errCalls) <= fatal
        /\ loopPc = "done" => Len(errCalls) = fatal

\* onError was called for a server error among the first n callbacks
ServerErrorReported(n) ==
    \E k \in 1..n : errCalls[k].ctx = DecodedMessageHasErrorPropertyErrorContext

\* C7: a critical_error or error payload is reported through onError with
\* the transport closed, and every AddSymbol or RemoveSymbol call made after
\* that report returns an error and its write does not reach the peer.
C7_ServerErrorEndsConnection ==
    /\ \A i \in 1..Len(received) :
        (/\ \/ Received(i, CriticalError)
            \/ Received(i, QuoteThenError)
         /\ tasks[i] = "done") =>
            /\ Cardinality(ErrorsFor(i)) = 1
            /\ \A k \in ErrorsFor(i) :
                /\ errCalls[k].ctx = DecodedMessageHasErrorPropertyErrorContext
                /\ errCalls[k].conn = "closed"
    /\ \A c \in 1..Len(calls) :
        (calls[c].op \in {"AddSymbol", "RemoveSymbol"}
            /\ ServerErrorReported(calls[c].errsBefore)) =>
            calls[c].err /\ ~writes[calls[c].write].ok

C7_Witness ==
    \E c \in 1..Len(calls) :
        /\ calls[c].op = "AddSymbol"
        /\ ServerErrorReported(calls[c].errsBefore)
        /\ calls[c].err

\* C8: a qsd payload given to the decoder whose status is not "ok", whose
\* symbol is empty or whose data is null is reported through onError as a
\* payload with missing properties, once, and onQuote is not called for it.
C8_BadQuoteRejected ==
    \A i \in 1..Len(received) :
        /\ Received(i, QuoteThenNotOk) =>
            \A k \in CallsFor(i) : Given(k) = Quote("A", "1", Nil, Nil, "2")
        /\ (Received(i, NoSymbol) \/ Received(i, NullData)) =>
            CallsFor(i) = {}
        /\ (/\ \/ Received(i, QuoteThenNotOk)
               \/ Received(i, NoSymbol)
               \/ Received(i, NullData)
            /\ tasks[i] = "done") =>
            /\ Cardinality(ErrorsFor(i)) = 1
            /\ ErrorsWith(i, FinalPayloadHasMissingPropertiesErrorContext) = ErrorsFor(i)

C8_Witness ==
    /\ \E i \in 1..Len(received) :
        /\ Received(i, QuoteThenNotOk)
        /\ tasks[i] = "done"
        /\ Cardinality(CallsFor(i)) = 1
    /\ \E i \in 1..Len(received) :
        /\ Received(i, NoSymbol) \/ Received(i, NullData)
        /\ tasks[i] = "done"

\* the length token of a buffer: the characters after the leading "~m~" up
\* to the next "~", or to the end of the buffer
TokenEnd(msg) ==
    IF \E k \in 4..Len(msg) : msg[k] = "~"
    THEN (CHOOSE k \in 4..Len(msg) :
             msg[k] = "~" /\ \A j \in 4..(k - 1) : msg[j] # "~") - 1
    ELSE Len(msg)

LengthToken(msg) == SubSeq(msg, 4, TokenEnd(msg))

IsNonNegativeInteger(token) ==
    token # << >> /\ \A j \in 1..Len(token) : IsDigit(token[j])

\* C9: a text buffer whose length token is not a non-negative integer never
\* makes the goroutine panic, and is reported through onError as a length
\* error.
C9_BadLengthIsFramingError ==
    \A i \in 1..Len(received) :
        (/\ received[i].msgType = TextMessage
         /\ ~IsNonNegativeInteger(LengthToken(received[i].msg))) =>
            /\ tasks[i] # "panic"
            /\ tasks[i] = "done" =>
                 ErrorsWith(i, GetPayloadLengthErrorContext) # {}

\* the first frame of msg declares more bytes than follow its header
DeclaresTooMuch(msg) ==
    /\ IsNonNegativeInteger(LengthToken(msg))
    /\ TokenEnd(msg) < Len(msg)
    /\ DigitsValue(LengthToken(msg)) > Len(msg) - (6 + Len(LengthToken(msg)))

\* C10: a frame that declares more bytes than the buffer holds is reported
\* through onError as a length error; the goroutine does not panic, and no
\* payload of it is decoded or given to onQuote.
C10_OverlongIsFramingError ==
    \A i \in 1..Len(received) :
        (received[i].msgType = TextMessage /\ DeclaresTooMuch(received[i].msg)) =>
            /\ tasks[i] # "panic"
            /\ CallsFor(i) = {}
            /\ tasks[i] = "done" =>
                 /\ ErrorsFor(i) # {}
                 /\ ErrorsWith(i, GetPayloadLengthErrorContext) = ErrorsFor(i)

\* the caller has called Close()
CloseCalled == \E c \in 1..Len(calls) : calls[c].op = "Close"

\* C11: once Close() was called the transport is closed and stays closed, the
\* loop reads no further message (a read after it only fails), and, unless a
\* goroutine panics, the loop ends and has made its reports.
C11_CloseEndsLoop ==
    /\ [](CloseCalled => conn = "closed")
    /\ [][CloseCalled => received' = received]_vars
    /\ (CloseCalled ~> (loopPc = "done" \/ crashed))

C11_Witness ==
    /\ CloseCalled /\ ~crashed
    /\ received # << >>
    /\ loopPc = "done"
    /\ \E k \in 1..Len(errCalls) : errCalls[k].ctx = ReadMessageErrorContext

C13_DifferentSymbolsBothDispatched ==
    \A i \in 1..Len(received) :
        (Received(i, TwoSymbols) /\ tasks[i] = "done") =>
            /\ \E k \in CallsFor(i) : Given(k) = Quote("A", "1", Nil, Nil, "1")
            /\ \E k \in CallsFor(i) : Given(k) = Quote("B", "1", Nil, Nil, "1")

\* the onQuote calls made for receive i, in the order they were made
CallSeq(i) ==
    LET ofReceive(q) == q.rcv = i
        made == SelectSeq(quoteCalls, ofReceive)
    IN  [k \in 1..Len(made) |-> [symbol |-> made[k].symbol, data |-> made[k].data]]

\* C14: the onQuote calls of a receive are its decoded quotes with every
\* later repetition removed: for the quotes a1, a2, a1 they are a1, a2.
C14_FirstOccurrenceDispatched ==
    \A i \in 1..Len(received) :
        (Received(i, RepeatedLater) /\ tasks[i] = "done") =>
            CallSeq(i) = << Quote("A", "1", Nil, Nil, "1"), Quote("A", "1", Nil, Nil, "2") >>

\* C15: a quote is given to onQuote once for each receive it arrives in,
\* whatever the receives before it held: a receive of one quote, or of the
\* same quote twice, makes exactly one onQuote call, with this quote.
C15_NoDeduplicationAcrossReceives ==
    \A i \in 1..Len(received) :
        ((Received(i, OneQuote) \/ Received(i, SameQuoteTwice)) /\ tasks[i] = "done") =>
            CallSeq(i) = << Quote("A", "1", Nil, Nil, "1") >>

C15_Witness ==
    /\ Len(received) = 2
    /\ Received(1, OneQuote) /\ Received(2, OneQuote)
    /\ tasks = <<"done", "done">>
    /\ Len(quoteCalls) = 2

\* the failure of a keep-alive echo has been reported and has ended the
\* connection
EchoFailureHandled ==
    /\ \E k \in 1..Len(errCalls) : errCalls[k].ctx = SendKeepAliveMessageErrorContext
    /\ conn = "closed"
    /\ loopPc = "done"

\* C16: when the write of a keep-alive echo has failed while the loop runs
\* on an open connection, then, whether or not the peer sends anything more,
\* the failure is eventually reported through onError with the keep-alive
\* context, the transport is closed and the loop has ended (unless a
\* goroutine panics first).
C16_EchoFailureReported ==
    (writeKeepAliveMsgError /\ conn = "open" /\ loopPc = "loop")
        ~> (EchoFailureHandled \/ crashed)

\* C17: when Init has returned an error, the failure that ended it has been
\* reported through onError exactly once.
C17_InitFailureReportedOnce ==
    (pc = "returned" /\ initErr) => Len(errCalls) = 1

\* C20: the onQuote calls are made in the order of the receives their quotes
\* arrived in: no call for a later receive comes before a call for an
\* earlier one.
C20_DispatchInReceiveOrder ==
    \A k \in 1..Len(quoteCalls) : \A l \in 1..Len(quoteCalls) :
        k < l => quoteCalls[k].rcv <= quoteCalls[l].rcv

\* the contexts of the errors parseJSON reports for the shape of a payload
PayloadErrorContexts ==
    { DecodedMessageDoesNotIncludePayloadErrorContext, PayloadCantBeParsedErrorContext,
      FinalPayloadCantBeParsedErrorContext, FinalPayloadHasMissingPropertiesErrorContext }

\* C19: a qsd payload whose second element is not an object (here a string)
\* never makes the goroutine panic; it is reported through onError as a
\* payload error, once, and onQuote is not called for it.
C19_ShapeMismatchIsPayloadError ==
    \A i \in 1..Len(received) :
        Received(i, SecondNotObject) =>
            /\ tasks[i] # "panic"
            /\ CallsFor(i) = {}
            /\ tasks[i] = "done" =>
                 /\ Cardinality(ErrorsFor(i)) = 1
                 /\ \A k \in ErrorsFor(i) : errCalls[k].ctx \in PayloadErrorContexts

\* the number of s.conn.WriteMessage calls that have not returned
WritesInProgress ==
    Len(pending) + Cardinality({i \in 1..Len(tasks) : tasks[i] = "echo"})

\* C18: at most one WriteMessage call is in progress at any time, whether it
\* comes from AddSymbol / RemoveSymbol or from the echo of a keep-alive
\* message.
C18_WritesSerialized == WritesInProgress <= 1

=============================================================================
